---- MODULE Spec2Model ----
(***************************************************************************)
(* Retirement forecasting engine: tax engine (tax_calculator.py), account  *)
(* portfolio and withdrawal strategy (account_types.py), forecast engine   *)
(* and Monte Carlo runner (retirement_calculator.py).                      *)
(*                                                                         *)
(* Money and rates are Python floats in the source.  They are modelled as  *)
(* exact rationals <<numerator, denominator>> in lowest terms with a       *)
(* positive denominator; float('inf') is the pair <<1, 0>>.  The one place *)
(* where the source relies on a float product cancelling exactly           *)
(* (account_types.py line 230) carries an explicit rounding-error term.    *)
(***************************************************************************)
EXTENDS Integers, Sequences, FiniteSets, TLC

VARIABLES
    accounts,     \* AccountPortfolio.accounts: dict AccountType -> AccountBalance
    ops,          \* number of portfolio operations performed so far
    call,         \* arguments of the calculate_withdrawal call
    ret,          \* value returned by calculate_withdrawal
    wpc,          \* position of the calculate_withdrawal caller
    calc,         \* the RetirementCalculator's attributes other than portfolio
    fpc,          \* position of the calculator: constructor outcome, forecast loop
    years,        \* argument of calculate_forecast
    year,         \* loop variable of calculate_forecast
    results,      \* the list "results" of the running calculate_forecast
    start,        \* self.portfolio as the running calculate_forecast found it
    returned,     \* the record lists returned by the completed forecast calls
    summary,      \* result of calculate_summary_metrics on the last forecast
    mc,           \* outcome of run_monte_carlo_simulation
    tax_call,     \* the TaxCalculator method called and its arguments
    tax_ret,      \* value(s) returned by the TaxCalculator method
    tpc           \* position of the TaxCalculator caller

vars == <<accounts, ops, call, ret, wpc, calc, fpc, years, year, results,
          start, returned, summary, mc, tax_call, tax_ret, tpc>>

(***************************************************************************)
(* Float arithmetic, as exact rationals.                                   *)
(***************************************************************************)
Abs(n) == IF n < 0 THEN -n ELSE n

RECURSIVE GCD(_, _)
GCD(a, b) == IF b = 0 THEN a ELSE GCD(b, a % b)

RNorm(n, d) == LET g == GCD(Abs(n), d) IN <<n \div g, d \div g>>

R(n) == <<n, 1>>

Zero == <<0, 1>>

One == <<1, 1>>

Inf == <<1, 0>>

IsInf(a) == a[2] = 0

RAdd(a, b) ==
    LET g  == GCD(a[2], b[2])
        ma == b[2] \div g
        mb == a[2] \div g
    IN RNorm(a[1] * ma + b[1] * mb, a[2] * ma)

RNeg(a) == <<-a[1], a[2]>>

RSub(a, b) == IF IsInf(a) THEN Inf ELSE RAdd(a, RNeg(b))

RMul(a, b) ==
    LET g1 == GCD(Abs(a[1]), b[2])
        g2 == GCD(Abs(b[1]), a[2])
    IN RNorm((a[1] \div g1) * (b[1] \div g2), (a[2] \div g2) * (b[2] \div g1))

RInv(a) == IF a[1] > 0 THEN <<a[2], a[1]>> ELSE <<-a[2], -a[1]>>

RDiv(a, b) == RMul(a, RInv(b))

RLt(a, b) ==
    IF IsInf(a) THEN FALSE
    ELSE IF IsInf(b) THEN TRUE
    ELSE IF a[1] \div a[2] # b[1] \div b[2] THEN a[1] \div a[2] < b[1] \div b[2]
    ELSE LET g == GCD(a[2], b[2])
         IN (a[1] % a[2]) * (b[2] \div g) < (b[1] % b[2]) * (a[2] \div g)

RLe(a, b) == ~RLt(b, a)

RMin(a, b) == IF RLt(b, a) THEN b ELSE a

RMax(a, b) == IF RLt(a, b) THEN b ELSE a

RECURSIVE RPow(_, _)
RPow(a, n) == IF n = 0 THEN One ELSE RMul(a, RPow(a, n - 1))

RECURSIVE RSum(_, _)
RSum(f, S) ==
    IF S = {} THEN Zero
    ELSE LET x == CHOOSE y \in S : TRUE IN RAdd(f[x], RSum(f, S \ {x}))

(***************************************************************************)
(* tax_calculator.py                                                       *)
(***************************************************************************)
FEDERAL_BRACKETS_SINGLE ==
    << <<R(11600), <<10, 100>>>>, <<R(47150), <<12, 100>>>>,
       <<R(100525), <<22, 100>>>>, <<R(191950), <<24, 100>>>>,
       <<R(243725), <<32, 100>>>>, <<R(609350), <<35, 100>>>>,
       <<Inf, <<37, 100>>>> >>

FEDERAL_BRACKETS_JOINT ==
    << <<R(23200), <<10, 100>>>>, <<R(94300), <<12, 100>>>>,
       <<R(201050), <<22, 100>>>>, <<R(383900), <<24, 100>>>>,
       <<R(487450), <<32, 100>>>>, <<R(731200), <<35, 100>>>>,
       <<Inf, <<37, 100>>>> >>

CAPITAL_GAINS_BRACKETS_JOINT ==
    << <<R(94050), Zero>>, <<R(583750), <<15, 100>>>>, <<Inf, <<20, 100>>>> >>

\* the single-filer table with the 0% limit of the year before
CAPITAL_GAINS_BRACKETS_SINGLE_2023 ==
    << <<R(44625), Zero>>, <<R(518900), <<15, 100>>>>, <<Inf, <<20, 100>>>> >>

CAPITAL_GAINS_BRACKETS_SINGLE ==
    << <<R(47025), Zero>>, <<R(518900), <<15, 100>>>>, <<Inf, <<20, 100>>>> >>

STANDARD_DEDUCTION_SINGLE == R(14600)

STANDARD_DEDUCTION_JOINT == R(29200)

Rate(r) == RNorm(r[1], r[2])

\* a loop whose last bracket assigns "tax =" where the source adds "tax +="
RECURSIVE FederalLoopNoCarry(_, _, _, _, _)
FederalLoopNoCarry(brackets, i, taxable_income, tax, previous_bracket) ==
    IF i > Len(brackets) THEN tax
    ELSE LET bracket_limit == brackets[i][1]
             rate          == Rate(brackets[i][2])
         IN IF RLe(taxable_income, bracket_limit)
            THEN RMul(RSub(taxable_income, previous_bracket), rate)
            ELSE FederalLoopNoCarry(brackets, i + 1, taxable_income,
                     RAdd(tax, RMul(RSub(bracket_limit, previous_bracket), rate)),
                     bracket_limit)

\* a loop that never advances previous_bracket
RECURSIVE FederalLoopNoFloor(_, _, _, _, _)
FederalLoopNoFloor(brackets, i, taxable_income, tax, previous_bracket) ==
    IF i > Len(brackets) THEN tax
    ELSE LET bracket_limit == brackets[i][1]
             rate          == Rate(brackets[i][2])
         IN IF RLe(taxable_income, bracket_limit)
            THEN RAdd(tax, RMul(RSub(taxable_income, previous_bracket), rate))
            ELSE FederalLoopNoFloor(brackets, i + 1, taxable_income,
                     RAdd(tax, RMul(RSub(bracket_limit, previous_bracket), rate)),
                     previous_bracket)

\* the for loop of calculate_federal_income_tax, entered at bracket i
RECURSIVE FederalLoop(_, _, _, _, _)
FederalLoop(brackets, i, taxable_income, tax, previous_bracket) ==
    IF i > Len(brackets) THEN tax
    ELSE LET bracket_limit == brackets[i][1]
             rate          == Rate(brackets[i][2])
         IN IF RLe(taxable_income, bracket_limit)
            THEN RAdd(tax, RMul(RSub(taxable_income, previous_bracket), rate))
            ELSE FederalLoop(brackets, i + 1, taxable_income,
                     RAdd(tax, RMul(RSub(bracket_limit, previous_bracket), rate)),
                     bracket_limit)

calculate_federal_income_tax(income, filing_jointly) ==
    LET brackets == IF filing_jointly THEN FEDERAL_BRACKETS_JOINT
                                      ELSE FEDERAL_BRACKETS_SINGLE
        standard_deduction == IF filing_jointly THEN STANDARD_DEDUCTION_JOINT
                                                ELSE STANDARD_DEDUCTION_SINGLE
        taxable_income == RMax(Zero, RSub(income, standard_deduction))
    IN IF RLe(taxable_income, Zero) THEN Zero
       ELSE FederalLoop(brackets, 1, taxable_income, Zero, Zero)

\* the for loop of calculate_capital_gains_tax, entered at bracket i
RECURSIVE CapitalGainsLoop(_, _, _, _, _, _)
CapitalGainsLoop(brackets, i, taxable_ordinary_income, tax, remaining_gains, previous_bracket) ==
    IF i > Len(brackets) THEN tax
    ELSE LET bracket_limit  == brackets[i][1]
             rate           == Rate(brackets[i][2])
             bracket_top    == bracket_limit
             bracket_bottom == RMax(previous_bracket, taxable_ordinary_income)
         IN IF RLe(bracket_top, bracket_bottom)
            THEN CapitalGainsLoop(brackets, i + 1, taxable_ordinary_income, tax,
                                  remaining_gains, bracket_limit)
            ELSE LET gains_in_bracket ==
                         RMin(remaining_gains, RSub(bracket_top, bracket_bottom))
                     took == RLt(Zero, gains_in_bracket)
                     tax2 == IF took THEN RAdd(tax, RMul(gains_in_bracket, rate))
                                     ELSE tax
                     rem2 == IF took THEN RSub(remaining_gains, gains_in_bracket)
                                     ELSE remaining_gains
                     toi2 == IF took
                             THEN RAdd(taxable_ordinary_income, gains_in_bracket)
                             ELSE taxable_ordinary_income
                 IN IF RLe(rem2, Zero) THEN tax2
                    ELSE CapitalGainsLoop(brackets, i + 1, toi2, tax2, rem2,
                                          bracket_limit)

\* gains taxed from the bottom of the brackets, whatever the ordinary income
calculate_capital_gains_tax_unstacked(gains, ordinary_income, filing_jointly) ==
    IF RLe(gains, Zero) THEN Zero
    ELSE LET brackets == IF filing_jointly THEN CAPITAL_GAINS_BRACKETS_JOINT
                                           ELSE CAPITAL_GAINS_BRACKETS_SINGLE
         IN CapitalGainsLoop(brackets, 1, Zero, Zero, gains, Zero)

calculate_capital_gains_tax(gains, ordinary_income, filing_jointly) ==
    IF RLe(gains, Zero) THEN Zero
    ELSE LET brackets == IF filing_jointly THEN CAPITAL_GAINS_BRACKETS_JOINT
                                           ELSE CAPITAL_GAINS_BRACKETS_SINGLE
             standard_deduction == IF filing_jointly THEN STANDARD_DEDUCTION_JOINT
                                                     ELSE STANDARD_DEDUCTION_SINGLE
             taxable_ordinary_income ==
                 RMax(Zero, RSub(ordinary_income, standard_deduction))
         IN CapitalGainsLoop(brackets, 1, taxable_ordinary_income, Zero, gains, Zero)

\* STATE_TAX_RATES, in ten-thousandths
STATE_TAX_RATES ==
    [state \in {"California", "New York", "Texas", "Florida", "Illinois",
                "Massachusetts", "Washington", "Colorado", "Oregon",
                "New Jersey", "None"} |->
        CASE state = "California" -> 930
          [] state = "New York" -> 685
          [] state = "Illinois" -> 495
          [] state = "Massachusetts" -> 500
          [] state = "Colorado" -> 440
          [] state = "Oregon" -> 990
          [] state = "New Jersey" -> 637
          [] OTHER -> 0]

calculate_state_tax(income, state) ==
    LET rate == IF state \in DOMAIN STATE_TAX_RATES
                THEN RNorm(STATE_TAX_RATES[state], 10000) ELSE Zero
    IN RMul(income, rate)

calculate_fica_tax(income, age) ==
    LET ss_wage_base == R(168600)
        ss_rate == RNorm(62, 1000)
        medicare_rate == RNorm(145, 10000)
        additional_medicare_threshold == R(200000)
        additional_medicare_rate == RNorm(9, 1000)
        ss_tax == RMul(RMin(income, ss_wage_base), ss_rate)
        medicare_tax == RMul(income, medicare_rate)
        medicare_tax2 ==
            IF RLt(additional_medicare_threshold, income)
            THEN RAdd(medicare_tax,
                      RMul(RSub(income, additional_medicare_threshold),
                           additional_medicare_rate))
            ELSE medicare_tax
    IN RAdd(ss_tax, medicare_tax2)

\* a total whose state tax is computed on the ordinary income alone
calculate_total_tax_state_on_ordinary(ordinary_income, capital_gains, state, filing_jointly, age, is_working) ==
    LET federal_income_tax ==
            calculate_federal_income_tax(ordinary_income, filing_jointly)
        capital_gains_tax ==
            calculate_capital_gains_tax(capital_gains, ordinary_income,
                                        filing_jointly)
        state_tax == calculate_state_tax(ordinary_income, state)
        fica_tax == IF is_working THEN calculate_fica_tax(ordinary_income, age)
                                  ELSE Zero
    IN [federal_income |-> federal_income_tax,
        capital_gains  |-> capital_gains_tax,
        state          |-> state_tax,
        fica           |-> fica_tax,
        total          |-> RAdd(RAdd(RAdd(federal_income_tax, capital_gains_tax),
                                     state_tax), fica_tax)]

\* the breakdown dict; the returned total_tax is breakdown.total
calculate_total_tax(ordinary_income, capital_gains, state, filing_jointly, age, is_working) ==
    LET federal_income_tax ==
            calculate_federal_income_tax(ordinary_income, filing_jointly)
        capital_gains_tax ==
            calculate_capital_gains_tax(capital_gains, ordinary_income,
                                        filing_jointly)
        state_tax == calculate_state_tax(RAdd(ordinary_income, capital_gains), state)
        fica_tax == IF is_working THEN calculate_fica_tax(ordinary_income, age)
                                  ELSE Zero
    IN [federal_income |-> federal_income_tax,
        capital_gains  |-> capital_gains_tax,
        state          |-> state_tax,
        fica           |-> fica_tax,
        total          |-> RAdd(RAdd(RAdd(federal_income_tax, capital_gains_tax),
                                     state_tax), fica_tax)]

(***************************************************************************)
(* account_types.py: AccountType, AccountBalance, AccountPortfolio         *)
(***************************************************************************)
TRADITIONAL_401K == "traditional_401k"
TRADITIONAL_IRA == "traditional_ira"
ROTH_401K == "roth_401k"
ROTH_IRA == "roth_ira"
TAXABLE == "taxable"
HSA == "hsa"

AccountType ==
    {TRADITIONAL_401K, TRADITIONAL_IRA, ROTH_401K, ROTH_IRA, TAXABLE, HSA}

\* dataclass constructor followed by __post_init__
AccountBalance(balance, cost_basis) ==
    LET b == RMax(Zero, balance)
    IN [balance |-> b, cost_basis |-> RMax(Zero, RMin(cost_basis, b))]

\* dict assignment d[k] = v
Put(d, k, v) == [x \in (DOMAIN d) \cup {k} |-> IF x = k THEN v ELSE d[x]]

EmptyDict == [x \in {} |-> Zero]

add_account(accts, account_type, balance, cost_basis) ==
    Put(accts, account_type, AccountBalance(balance, cost_basis))

get_balance(accts, account_type) ==
    IF account_type \in DOMAIN accts THEN accts[account_type].balance ELSE Zero

get_total_balance(accts) ==
    RSum([t \in DOMAIN accts |-> accts[t].balance], DOMAIN accts)

get_cost_basis(accts, account_type) ==
    IF account_type \in DOMAIN accts THEN accts[account_type].cost_basis ELSE Zero

update_balance(accts, account_type, new_balance) ==
    IF account_type \in DOMAIN accts
    THEN [accts EXCEPT ![account_type].balance = RMax(Zero, new_balance)]
    ELSE accts

update_cost_basis(accts, account_type, new_basis) ==
    IF account_type \in DOMAIN accts
    THEN [accts EXCEPT ![account_type].cost_basis =
              RMax(Zero, RMin(new_basis, accts[account_type].balance))]
    ELSE accts

apply_growth(accts, growth_rate) ==
    [t \in DOMAIN accts |->
        [accts[t] EXCEPT !.balance = RAdd(@, RMul(@, growth_rate))]]

\* a deposit that leaves the cost basis alone
deposit_balance_only(accts, account_type, amount) ==
    IF RLe(amount, Zero) THEN accts
    ELSE LET a2 == IF account_type \notin DOMAIN accts
                   THEN add_account(accts, account_type, Zero, Zero)
                   ELSE accts
         IN [a2 EXCEPT ![account_type] =
                [balance    |-> RAdd(@.balance, amount),
                 cost_basis |-> @.cost_basis]]

deposit(accts, account_type, amount) ==
    IF RLe(amount, Zero) THEN accts
    ELSE LET a2 == IF account_type \notin DOMAIN accts
                   THEN add_account(accts, account_type, Zero, Zero)
                   ELSE accts
         IN [a2 EXCEPT ![account_type] =
                [balance    |-> RAdd(@.balance, amount),
                 cost_basis |-> RAdd(@.cost_basis, amount)]]

(***************************************************************************)
(* account_types.py: WithdrawalStrategy                                    *)
(***************************************************************************)
withdrawal_order ==
    <<TAXABLE, HSA, TRADITIONAL_401K, TRADITIONAL_IRA, ROTH_401K, ROTH_IRA>>

traditional_types == <<TRADITIONAL_401K, TRADITIONAL_IRA>>

\* IRS Uniform Lifetime Table for ages 73..100, in tenths
distribution_period_table ==
    <<265, 255, 246, 237, 229, 220, 211, 202, 194, 185, 177, 168, 160, 152,
      144, 137, 129, 122, 115, 108, 101, 95, 89, 84, 78, 73, 68, 64>>

\* a lookup whose default for ages beyond the table is the last-but-one entry
distribution_period_default68(age) ==
    IF age >= 73 /\ age <= 100 THEN RNorm(distribution_period_table[age - 72], 10)
                               ELSE RNorm(68, 10)

\* {...}.get(age, 6.4)
distribution_period(age) ==
    IF age >= 73 /\ age <= 100 THEN RNorm(distribution_period_table[age - 72], 10)
                               ELSE RNorm(64, 10)

calculate_rmd(accts, age) ==
    IF age < 73 THEN Zero
    ELSE LET traditional_balance ==
                 RAdd(get_balance(accts, TRADITIONAL_401K),
                      get_balance(accts, TRADITIONAL_IRA))
         IN IF RLt(Zero, distribution_period(age))
            THEN RDiv(traditional_balance, distribution_period(age))
            ELSE Zero

\* size of one float rounding error
Ulp == <<1, 100>>

\* float result of gross_withdrawal * (1 - marginal_rate): the exact product
\* when the factor is 1.0, otherwise the product off by err rounding units
FloatProduct(gross_withdrawal, factor, err) ==
    IF factor = One THEN gross_withdrawal
    ELSE RAdd(RMul(gross_withdrawal, factor), RMul(R(err), Ulp))

\* for acc_type in traditional_types (RMD pre-pass), entered at index i
RECURSIVE RmdLoop(_, _, _, _)
RmdLoop(accts, i, st, rmd_remaining) ==
    IF i > Len(traditional_types) \/ RLe(rmd_remaining, Zero) THEN st
    ELSE LET acc_type  == traditional_types[i]
             available == get_balance(accts, acc_type)
         IN IF RLt(Zero, available)
            THEN LET withdrawal == RMin(rmd_remaining, available)
                     prior == IF acc_type \in DOMAIN st.withdrawals
                              THEN st.withdrawals[acc_type] ELSE Zero
                 IN RmdLoop(accts, i + 1,
                        [st EXCEPT
                           !.withdrawals = Put(@, acc_type, RAdd(prior, withdrawal)),
                           !.total_ordinary_withdrawals = RAdd(@, withdrawal),
                           !.remaining_needed = RSub(@, withdrawal)],
                        RSub(rmd_remaining, withdrawal))
            ELSE RmdLoop(accts, i + 1, st, rmd_remaining)

\* a Traditional withdrawal that is not capped at the available balance
UncappedGross(gross_needed, available_balance) == gross_needed

\* gross_withdrawal = min(gross_needed, available_balance)
CappedGross(gross_needed, available_balance) ==
    RMin(gross_needed, available_balance)

\* one iteration body of "for account_type in withdrawal_order"
WithdrawFrom(accts, account_type, st, ordinary_income, filing_jointly, errs) ==
    LET available_balance == get_balance(accts, account_type)
        remaining_needed  == st.remaining_needed
    IN IF account_type = TAXABLE
       THEN LET cost_basis  == get_cost_basis(accts, account_type)
                gains_ratio ==
                    IF RLt(Zero, available_balance)
                    THEN RMax(Zero, RDiv(RSub(available_balance, cost_basis),
                                         available_balance))
                    ELSE Zero
                gross_withdrawal ==
                    RMin(RMul(remaining_needed, <<3, 2>>), available_balance)
                capital_gains == RMul(gross_withdrawal, gains_ratio)
                cg_tax == calculate_capital_gains_tax(capital_gains,
                              RAdd(ordinary_income, st.total_ordinary_withdrawals),
                              filing_jointly)
                net_withdrawal == RSub(gross_withdrawal, cg_tax)
            IN IF RLt(Zero, net_withdrawal)
               THEN [st EXCEPT
                       !.withdrawals = Put(@, account_type, gross_withdrawal),
                       !.total_capital_gains = RAdd(@, capital_gains),
                       !.remaining_needed = RSub(@, net_withdrawal)]
               ELSE st
       ELSE IF account_type \in {TRADITIONAL_401K, TRADITIONAL_IRA}
       THEN LET base == RAdd(ordinary_income, st.total_ordinary_withdrawals)
                test_income == RAdd(base, R(10000))
                test_tax == calculate_federal_income_tax(test_income, filing_jointly)
                base_tax == calculate_federal_income_tax(base, filing_jointly)
                marginal_rate == RDiv(RSub(test_tax, base_tax), R(10000))
                gross_needed == RDiv(remaining_needed, RSub(One, marginal_rate))
                gross_withdrawal == CappedGross(gross_needed, available_balance)
            IN [st EXCEPT
                  !.withdrawals = Put(@, account_type, gross_withdrawal),
                  !.total_ordinary_withdrawals = RAdd(@, gross_withdrawal),
                  !.remaining_needed =
                      RSub(@, FloatProduct(gross_withdrawal,
                                  RSub(One, marginal_rate), errs[account_type]))]
       ELSE LET withdrawal == RMin(remaining_needed, available_balance)
            IN [st EXCEPT
                  !.withdrawals = Put(@, account_type, withdrawal),
                  !.remaining_needed = RSub(@, withdrawal)]

\* for account_type in withdrawal_order, entered at index i
RECURSIVE MainLoop(_, _, _, _, _, _)
MainLoop(accts, i, st, ordinary_income, filing_jointly, errs) ==
    IF i > Len(withdrawal_order) \/ RLe(st.remaining_needed, Zero) THEN st
    ELSE IF RLe(get_balance(accts, withdrawal_order[i]), Zero)
    THEN MainLoop(accts, i + 1, st, ordinary_income, filing_jointly, errs)
    ELSE MainLoop(accts, i + 1,
             WithdrawFrom(accts, withdrawal_order[i], st, ordinary_income,
                          filing_jointly, errs),
             ordinary_income, filing_jointly, errs)

\* state of calculate_withdrawal after the RMD pre-pass
AfterRmd(accts, amount_needed, age) ==
    LET st0 == [withdrawals |-> EmptyDict,
                remaining_needed |-> amount_needed,
                total_capital_gains |-> Zero,
                total_ordinary_withdrawals |-> Zero]
    IN IF age >= 73 /\ RLt(Zero, calculate_rmd(accts, age))
       THEN RmdLoop(accts, 1, st0, calculate_rmd(accts, age))
       ELSE st0

calculate_withdrawal(accts, amount_needed, age, ordinary_income, filing_jointly, errs) ==
    LET st == MainLoop(accts, 1, AfterRmd(accts, amount_needed, age),
                       ordinary_income, filing_jointly, errs)
        capital_gains_tax ==
            IF RLt(Zero, st.total_capital_gains)
            THEN calculate_capital_gains_tax(st.total_capital_gains,
                                             ordinary_income, filing_jointly)
            ELSE Zero
        ordinary_tax ==
            IF RLt(Zero, st.total_ordinary_withdrawals)
            THEN RSub(calculate_federal_income_tax(
                          RAdd(ordinary_income, st.total_ordinary_withdrawals),
                          filing_jointly),
                      calculate_federal_income_tax(ordinary_income, filing_jointly))
            ELSE Zero
    IN [withdrawals |-> st.withdrawals,
        total_withdrawal_tax |-> RAdd(capital_gains_tax, ordinary_tax)]

(***************************************************************************)
(* retirement_calculator.py: Person, RetirementCalculator                  *)
(***************************************************************************)
\* datetime.now().year
datetime_now_year == 2026

\* a person still working in the year the retirement age is reached
get_income_retires_late(person, year_offset) ==
    LET current_age == person.age + year_offset
        growth == RPow(RAdd(One, person.income_growth_rate), year_offset)
    IN IF current_age <= person.retirement_age
       THEN [cash |-> RMul(person.current_income, growth),
             rsu  |-> RMul(person.annual_rsu_vesting, growth),
             working |-> TRUE]
       ELSE [cash |-> person.retirement_income, rsu |-> Zero, working |-> FALSE]

\* Person.get_income: (cash_income, rsu_vesting, is_working)
get_income(person, year_offset) ==
    LET current_age == person.age + year_offset
        growth == RPow(RAdd(One, person.income_growth_rate), year_offset)
    IN IF current_age < person.retirement_age
       THEN [cash |-> RMul(person.current_income, growth),
             rsu  |-> RMul(person.annual_rsu_vesting, growth),
             working |-> TRUE]
       ELSE [cash |-> person.retirement_income, rsu |-> Zero, working |-> FALSE]

\* AccountType(account_name) succeeds
IsAccountType(account_name) == account_name \in AccountType

\* __init__, lines 118-130: the portfolio built from account_balances (a list
\* of <<name, balance>> items, empty for None or {}) or from initial_assets
RECURSIVE PortfolioFromBalances(_, _, _)
PortfolioFromBalances(accts, account_balances, i) ==
    IF i > Len(account_balances) THEN accts
    ELSE LET account_type == account_balances[i][1]
             balance      == account_balances[i][2]
             cost_basis   == IF account_type = TAXABLE
                             THEN RMul(balance, <<4, 5>>) ELSE balance
         IN PortfolioFromBalances(
                add_account(accts, account_type, balance, cost_basis),
                account_balances, i + 1)

InitialPortfolio(account_balances, initial_assets) ==
    IF Len(account_balances) > 0
    THEN PortfolioFromBalances(EmptyDict, account_balances, 1)
    ELSE add_account(EmptyDict, TAXABLE, initial_assets,
                     RMul(initial_assets, <<4, 5>>))

\* a constructor that accepts every account name
ConstructorNeverRaises(account_balances) == FALSE

\* __init__ raises ValueError at AccountType(account_name)
ConstructorRaises(account_balances) ==
    \E i \in 1..Len(account_balances) : ~IsAccountType(account_balances[i][1])

\* lines 160-172: the loop over self.people, entered at person i
RECURSIVE PeopleLoop(_, _, _, _)
PeopleLoop(people, i, year_, acc) ==
    IF i > Len(people) THEN acc
    ELSE LET inc == get_income(people[i], year_)
         IN PeopleLoop(people, i + 1, year_,
                [total_cash_income  |-> RAdd(acc.total_cash_income, inc.cash),
                 total_rsu_vesting  |-> RAdd(acc.total_rsu_vesting, inc.rsu),
                 anyone_working     |-> acc.anyone_working \/ inc.working,
                 oldest_age         |-> IF people[i].age + year_ > acc.oldest_age
                                        THEN people[i].age + year_
                                        ELSE acc.oldest_age])

\* lines 187-189: one-time expenses of current_year
RECURSIVE OneTimeExpenses(_, _, _)
OneTimeExpenses(one_time_expenses, i, current_year) ==
    IF i > Len(one_time_expenses) THEN Zero
    ELSE RAdd(IF one_time_expenses[i].year = current_year
              THEN one_time_expenses[i].amount ELSE Zero,
              OneTimeExpenses(one_time_expenses, i + 1, current_year))

\* a deposit loop whose except clause drops the share of an unrecognized name
RECURSIVE DepositLoopSkipUnknown(_, _, _, _)
DepositLoopSkipUnknown(accts, contribution_allocation, i, cash_flow) ==
    IF i > Len(contribution_allocation) THEN accts
    ELSE LET account_name   == contribution_allocation[i][1]
             allocation_pct == contribution_allocation[i][2]
             accts2 ==
                 IF RLt(Zero, allocation_pct) /\ IsAccountType(account_name)
                 THEN deposit(accts, account_name,
                              RMul(cash_flow, allocation_pct))
                 ELSE accts
         IN DepositLoopSkipUnknown(accts2, contribution_allocation, i + 1,
                                   cash_flow)

\* lines 224-232: deposits of a positive cash flow, entered at allocation i
RECURSIVE DepositLoop(_, _, _, _)
DepositLoop(accts, contribution_allocation, i, cash_flow) ==
    IF i > Len(contribution_allocation) THEN accts
    ELSE LET account_name   == contribution_allocation[i][1]
             allocation_pct == contribution_allocation[i][2]
             accts2 ==
                 IF RLt(Zero, allocation_pct)
                 THEN IF IsAccountType(account_name)
                      THEN deposit(accts, account_name,
                                   RMul(cash_flow, allocation_pct))
                      ELSE deposit(accts, TAXABLE, RMul(cash_flow, allocation_pct))
                 ELSE accts
         IN DepositLoop(accts2, contribution_allocation, i + 1, cash_flow)

\* an application of the withdrawals that lowers the cost basis along with
\* the balance
RECURSIVE ApplyWithdrawalsAndBasis(_, _, _)
ApplyWithdrawalsAndBasis(accts, withdrawal_by_account, todo) ==
    IF todo = {} THEN accts
    ELSE LET account_type == CHOOSE t \in todo : TRUE
             amount == withdrawal_by_account[account_type]
             current_balance == get_balance(accts, account_type)
         IN ApplyWithdrawalsAndBasis(
                update_cost_basis(
                    update_balance(accts, account_type,
                                   RSub(current_balance, amount)),
                    account_type,
                    RSub(get_cost_basis(accts, account_type), amount)),
                withdrawal_by_account, todo \ {account_type})

\* lines 247-250: apply the withdrawals in the set todo to the portfolio
RECURSIVE ApplyWithdrawals(_, _, _)
ApplyWithdrawals(accts, withdrawal_by_account, todo) ==
    IF todo = {} THEN accts
    ELSE LET account_type == CHOOSE t \in todo : TRUE
             amount == withdrawal_by_account[account_type]
             current_balance == get_balance(accts, account_type)
         IN ApplyWithdrawals(
                update_balance(accts, account_type, RSub(current_balance, amount)),
                withdrawal_by_account, todo \ {account_type})

\* lines 160-189: incomes, Social Security and expenses of the year, from the
\* totals p of the loop over self.people
YearIncome(c, year_, p) ==
    LET current_year == datetime_now_year + year_
        social_security_income ==
            IF p.oldest_age >= c.social_security_age
            THEN c.social_security_benefit ELSE Zero
    IN [current_year |-> current_year,
        total_cash_income |-> p.total_cash_income,
        total_rsu_vesting |-> p.total_rsu_vesting,
        anyone_working |-> p.anyone_working,
        oldest_age |-> p.oldest_age,
        social_security_income |-> social_security_income,
        total_ordinary_income |->
            RAdd(RAdd(p.total_cash_income, p.total_rsu_vesting),
                 social_security_income),
        expenses |->
            RAdd(RMul(c.annual_expenses,
                      RPow(RAdd(One, c.expense_growth_rate), year_)),
                 OneTimeExpenses(c.one_time_expenses, 1, current_year))]

\* lines 191-194: growth of every account
YearGrowth(c, accts, grown) ==
    [grown |-> grown,
     investment_gains |->
         RSub(get_total_balance(grown), get_total_balance(accts))]

\* lines 196-212: tax on ordinary income
YearTax(c, inc) ==
    calculate_total_tax(inc.total_ordinary_income, Zero, c.state,
                        c.filing_jointly, inc.oldest_age, inc.anyone_working)

\* lines 214-217: net income and cash flow
YearCashFlow(c, inc, tax_breakdown_total) ==
    [tax |-> tax_breakdown_total,
     net_income |-> RSub(inc.total_ordinary_income, tax_breakdown_total),
     cash_flow |->
         RSub(RAdd(RSub(inc.total_ordinary_income, tax_breakdown_total),
                   c.additional_contributions),
              inc.expenses)]

\* a withdrawal branch that passes cash_flow where the source passes -cash_flow
YearWithdrawalSignError(c, inc, grown, cash_flow, errs) ==
    IF RLt(cash_flow, Zero)
    THEN calculate_withdrawal(grown, cash_flow, inc.oldest_age,
             inc.total_ordinary_income, c.filing_jointly, errs)
    ELSE [withdrawals |-> EmptyDict, total_withdrawal_tax |-> Zero]

\* lines 219-245: the withdrawal strategy is asked only for a negative cash flow
YearWithdrawal(c, inc, grown, cash_flow, errs) ==
    IF RLt(cash_flow, Zero)
    THEN calculate_withdrawal(grown, RNeg(cash_flow), inc.oldest_age,
             inc.total_ordinary_income, c.filing_jointly, errs)
    ELSE [withdrawals |-> EmptyDict, total_withdrawal_tax |-> Zero]

\* lines 221-250: deposits of a surplus, or the withdrawals applied
YearPortfolio(c, grown, cash_flow, w) ==
    IF RLt(Zero, cash_flow)
    THEN DepositLoop(grown, c.contribution_allocation, 1, cash_flow)
    ELSE IF RLt(cash_flow, Zero)
    THEN ApplyWithdrawals(grown, w.withdrawals, DOMAIN w.withdrawals)
    ELSE grown

\* a capital-gains report whose gains ratio is not floored at 0
YearCapitalGainsNoFloor(w, after) ==
    IF TAXABLE \in DOMAIN w.withdrawals
    THEN LET taxable_withdrawal == w.withdrawals[TAXABLE]
             taxable_balance_before ==
                 RAdd(get_balance(after, TAXABLE), taxable_withdrawal)
             cost_basis == get_cost_basis(after, TAXABLE)
         IN IF RLt(Zero, taxable_balance_before)
            THEN RMul(taxable_withdrawal,
                     RDiv(RSub(taxable_balance_before, cost_basis),
                          taxable_balance_before))
            ELSE Zero
    ELSE Zero

\* lines 256-262: realized capital gains reported for the year
YearCapitalGains(w, after) ==
    IF TAXABLE \in DOMAIN w.withdrawals
    THEN LET taxable_withdrawal == w.withdrawals[TAXABLE]
             taxable_balance_before ==
                 RAdd(get_balance(after, TAXABLE), taxable_withdrawal)
             cost_basis == get_cost_basis(after, TAXABLE)
         IN IF RLt(Zero, taxable_balance_before)
            THEN RMul(taxable_withdrawal,
                     RMax(Zero,
                          RDiv(RSub(taxable_balance_before, cost_basis),
                               taxable_balance_before)))
            ELSE Zero
    ELSE Zero

\* lines 264-313: the record appended for the year
YearRecord(inc, gr, cf, w, after, assets, deflator) ==
    ("Year" :> inc.current_year) @@
    ("Age" :> inc.oldest_age) @@
    ("Total Income" :> inc.total_ordinary_income) @@
    ("Cash Income" :>
         RSub(inc.total_cash_income, inc.social_security_income)) @@
    ("RSU Vesting" :> inc.total_rsu_vesting) @@
    ("Ordinary Income" :>
         RSub(inc.total_ordinary_income, inc.social_security_income)) @@
    ("Social Security" :> inc.social_security_income) @@
    ("Expenses" :> inc.expenses) @@
    ("Total Tax" :> RAdd(cf.tax, w.total_withdrawal_tax)) @@
    ("Withdrawal Tax" :> w.total_withdrawal_tax) @@
    ("Net Income" :> cf.net_income) @@
    ("Cash Flow" :> cf.cash_flow) @@
    ("Investment Gains" :> gr.investment_gains) @@
    ("Capital Gains" :> YearCapitalGains(w, after)) @@
    ("Withdrawal" :> RSum(w.withdrawals, DOMAIN w.withdrawals)) @@
    ("Assets (Nominal)" :> assets) @@
    ("Assets (Real)" :> RDiv(assets, deflator)) @@
    ("Real Expenses" :> RDiv(inc.expenses, deflator)) @@
    ("Real Income" :> RDiv(inc.total_ordinary_income, deflator)) @@
    ("Working" :> inc.anyone_working) @@
    ("Traditional_401k" :> get_balance(after, TRADITIONAL_401K)) @@
    ("Traditional_IRA" :> get_balance(after, TRADITIONAL_IRA)) @@
    ("Roth_401k" :> get_balance(after, ROTH_401K)) @@
    ("Roth_IRA" :> get_balance(after, ROTH_IRA)) @@
    ("Taxable" :> get_balance(after, TAXABLE)) @@
    ("HSA" :> get_balance(after, HSA))

\* the year from the portfolio after deposits or withdrawals on
YearEnd(c, year_, inc, gr, cf, w, after) ==
    [accounts |-> after,
     record |-> YearRecord(inc, gr, cf, w, after,
                    RMax(Zero, get_total_balance(after)),
                    RPow(RAdd(One, c.inflation_rate), year_))]

\* the year from the withdrawal decision on
YearSettle(c, year_, inc, gr, cf, w) ==
    YearEnd(c, year_, inc, gr, cf, w,
            YearPortfolio(c, gr.grown, cf.cash_flow, w))

\* the year from the cash flow on
YearSpend(c, year_, errs, inc, gr, cf) ==
    YearSettle(c, year_, inc, gr, cf,
               YearWithdrawal(c, inc, gr.grown, cf.cash_flow, errs))

\* the year from the incomes on
YearEarn(c, accts, year_, errs, inc) ==
    YearSpend(c, year_, errs, inc,
              YearGrowth(c, accts, apply_growth(accts, c.investment_return_rate)),
              YearCashFlow(c, inc, YearTax(c, inc).total))

\* one iteration of the loop of calculate_forecast (lines 157-317): the
\* portfolio after it and the appended record
ForecastYear(c, accts, year_, errs) ==
    YearEarn(c, accts, year_, errs,
             YearIncome(c, year_,
                 PeopleLoop(c.people, 1, year_,
                     [total_cash_income |-> Zero, total_rsu_vesting |-> Zero,
                      anyone_working |-> FALSE, oldest_age |-> 0])))

\* a loop exit that fires only below zero, which the clamped assets never are
DepletedBelowZero(record) == RLt(record["Assets (Nominal)"], Zero)

\* line 316: "if assets <= 0: break"
Depleted(record) == RLe(record["Assets (Nominal)"], Zero)

\* index of the last row satisfying Working == False, 0 if there is none
LastRetired(df) ==
    IF \E i \in 1..Len(df) : ~df[i]["Working"]
    THEN CHOOSE i \in 1..Len(df) :
             ~df[i]["Working"] /\ \A j \in (i + 1)..Len(df) : df[j]["Working"]
    ELSE 0

\* index of the first row satisfying Working == False, 0 if there is none
FirstRetired(df) ==
    IF \E i \in 1..Len(df) : ~df[i]["Working"]
    THEN CHOOSE i \in 1..Len(df) :
             ~df[i]["Working"] /\ \A j \in 1..(i - 1) : df[j]["Working"]
    ELSE 0

\* forecast_df['Assets (Nominal)'].idxmax(): the first row holding the maximum
IdxMax(df) ==
    CHOOSE i \in 1..Len(df) :
        /\ \A j \in 1..Len(df) :
              RLe(df[j]["Assets (Nominal)"], df[i]["Assets (Nominal)"])
        /\ \A j \in 1..(i - 1) :
              RLt(df[j]["Assets (Nominal)"], df[i]["Assets (Nominal)"])

\* a depletion flag that is set only below zero
AssetsDepletedBelowZero(final_assets) == RLt(final_assets, Zero)

\* line 355: assets_depleted = final_assets <= 0
AssetsDepleted(final_assets) == RLe(final_assets, Zero)

RECURSIVE ColumnSum(_, _, _)
ColumnSum(df, column, i) ==
    IF i > Len(df) THEN Zero
    ELSE RAdd(df[i][column], ColumnSum(df, column, i + 1))

calculate_summary_metrics(forecast_df) ==
    IF Len(forecast_df) = 0 THEN EmptyDict
    ELSE LET r == FirstRetired(forecast_df)
             final_assets == forecast_df[Len(forecast_df)]["Assets (Nominal)"]
             final_year == forecast_df[Len(forecast_df)]["Year"]
             assets_depleted == AssetsDepleted(final_assets)
         IN [retirement_year |->
                 IF r # 0 THEN <<forecast_df[r]["Year"]>> ELSE << >>,
             retirement_assets |->
                 IF r # 0 THEN <<forecast_df[r]["Assets (Nominal)"]>> ELSE << >>,
             peak_assets |-> forecast_df[IdxMax(forecast_df)]["Assets (Nominal)"],
             peak_year |-> forecast_df[IdxMax(forecast_df)]["Year"],
             final_assets |-> final_assets,
             final_year |-> final_year,
             final_age |-> forecast_df[Len(forecast_df)]["Age"],
             total_taxes_paid |-> ColumnSum(forecast_df, "Total Tax", 1),
             total_investment_gains |->
                 ColumnSum(forecast_df, "Investment Gains", 1),
             assets_depleted |-> assets_depleted,
             depletion_year |-> IF assets_depleted THEN <<final_year>> ELSE << >>]

(***************************************************************************)
(* Idle values of the state each specification leaves alone.               *)
(***************************************************************************)
NoCall == [amount_needed |-> Zero, age |-> 0, ordinary_income |-> Zero,
           filing_jointly |-> FALSE]

NoReturn == [withdrawals |-> EmptyDict, total_withdrawal_tax |-> Zero]

wvars == <<call, ret, wpc>>

WithdrawalIdle == call = NoCall /\ ret = NoReturn /\ wpc = "idle"

fvars == <<calc, fpc, years, year, results, start, returned, summary, mc>>

ForecastIdle ==
    /\ calc = << >>
    /\ fpc = "idle"
    /\ years = 0
    /\ year = 0
    /\ results = << >>
    /\ start = EmptyDict
    /\ returned = << >>
    /\ summary = << >>
    /\ mc = << >>

NoTaxCall == [fn |-> ""]

tvars == <<tax_call, tax_ret, tpc>>

TaxIdle == tax_call = NoTaxCall /\ tax_ret = << >> /\ tpc = "idle"

(***************************************************************************)
(* SpecWithdrawal: one call of WithdrawalStrategy.calculate_withdrawal on  *)
(* a portfolio built with add_account.                                     *)
(***************************************************************************)
\* (balance, cost_basis) pairs offered to add_account, per account type;
\* the empty tuple leaves the account out of the portfolio
BalanceChoices ==
    [t \in AccountType |->
        CASE t = TRADITIONAL_401K -> {<< >>, <<R(3392), R(3392)>>}
          [] t = TRADITIONAL_IRA -> {<< >>, <<R(0), R(0)>>, <<R(1696), R(1696)>>}
          [] t = TAXABLE -> {<< >>, <<R(10000), R(8000)>>, <<R(10000), R(10000)>>}
          [] t = HSA -> {<< >>, <<R(2000), R(2000)>>}
          [] t = ROTH_401K -> {<< >>, <<R(5000), R(5000)>>}
          [] t = ROTH_IRA -> {<< >>, <<R(50000), R(50000)>>}]

\* the portfolio after add_account for every chosen account
RECURSIVE BuildPortfolio(_, _, _)
BuildPortfolio(accts, choice, i) ==
    IF i > Len(withdrawal_order) THEN accts
    ELSE LET t == withdrawal_order[i]
         IN BuildPortfolio(
                IF choice[t] = << >> THEN accts
                ELSE add_account(accts, t, choice[t][1], choice[t][2]),
                choice, i + 1)

AmountChoices == {R(0), R(100), R(1000), R(20000)}

AgeChoices == {60, 73, 101}

IncomeChoices == {R(0), R(30000), R(150000)}

RoundingErrors == [{TRADITIONAL_401K, TRADITIONAL_IRA} -> {-1, 0, 1}]

NoRounding == [t \in {TRADITIONAL_401K, TRADITIONAL_IRA} |-> 0]

InitWithdrawal ==
    /\ \E choice \in [AccountType -> UNION {BalanceChoices[t] : t \in AccountType}] :
          /\ \A t \in AccountType : choice[t] \in BalanceChoices[t]
          /\ accounts = BuildPortfolio(EmptyDict, choice, 1)
    /\ ops = 0
    /\ \E amount_needed \in AmountChoices \cup {get_total_balance(accounts)},
          age \in AgeChoices, ordinary_income \in IncomeChoices,
          filing_jointly \in BOOLEAN :
          call = [amount_needed |-> amount_needed, age |-> age,
                  ordinary_income |-> ordinary_income,
                  filing_jointly |-> filing_jointly]
    /\ ret = NoReturn
    /\ wpc = "call"
    /\ ForecastIdle
    /\ TaxIdle

CalculateWithdrawal ==
    /\ wpc = "call"
    /\ \E errs \in RoundingErrors :
          ret' = calculate_withdrawal(accounts, call.amount_needed, call.age,
                     call.ordinary_income, call.filing_jointly, errs)
    /\ wpc' = "returned"
    /\ UNCHANGED <<accounts, ops, call>>
    /\ UNCHANGED <<fvars, tvars>>

NextWithdrawal == CalculateWithdrawal

SpecWithdrawal == InitWithdrawal /\ [][NextWithdrawal]_vars

(***************************************************************************)
(* Properties of calculate_withdrawal (SpecWithdrawal).                    *)
(***************************************************************************)
\* amount returned for account type t, 0 when t is not a key of the result
Withdrawn(t) == IF t \in DOMAIN ret.withdrawals THEN ret.withdrawals[t] ELSE Zero

TraditionalBalance ==
    RAdd(get_balance(accounts, TRADITIONAL_401K),
         get_balance(accounts, TRADITIONAL_IRA))

TraditionalWithdrawn == RAdd(Withdrawn(TRADITIONAL_401K), Withdrawn(TRADITIONAL_IRA))

\* the divisor table as the specification states it: 26.5 at 73, 6.4 at 100
\* and beyond, the source table in between
SpecDivisor(age) ==
    IF age = 73 THEN <<53, 2>>
    ELSE IF age >= 100 THEN <<32, 5>>
    ELSE distribution_period(age)

SpecRmd == RDiv(TraditionalBalance, SpecDivisor(call.age))

\* C2: at age >= 73 with a positive Traditional balance the returned
\* Traditional-401k + Traditional-IRA withdrawals are at least the RMD.
C2_RmdFloor ==
    (wpc = "returned" /\ call.age >= 73 /\ RLt(Zero, TraditionalBalance))
        => RLe(SpecRmd, TraditionalWithdrawn)

\* C3: every returned amount is >= 0 and at most the account's balance before
\* the call, and only accounts of the portfolio appear in the result.
C3_WithdrawalConservation ==
    wpc = "returned" =>
        \A t \in DOMAIN ret.withdrawals :
            /\ t \in DOMAIN accounts
            /\ RLe(Zero, ret.withdrawals[t])
            /\ RLe(ret.withdrawals[t], accounts[t].balance)

\* C3 witness: a Traditional account drawn in the RMD pre-pass and again, up
\* to its whole balance, in the main pass.
C3_Witness ==
    /\ wpc = "returned"
    /\ call.age >= 73
    /\ RLt(SpecRmd, call.amount_needed)
    /\ TRADITIONAL_401K \in DOMAIN ret.withdrawals
    /\ ret.withdrawals[TRADITIONAL_401K] = accounts[TRADITIONAL_401K].balance
    /\ RLt(Zero, ret.withdrawals[TRADITIONAL_401K])

\* C4: with amount_needed = 0 at age >= 73 the result is exactly the RMD:
\* Traditional-401k gets min(RMD, its balance), Traditional-IRA the rest, no
\* other account is drawn; a lone 500000 Traditional-401k at 73 yields
\* 500000/26.5, and a 401k of 53 beside an IRA of 1696 yields 53 and 13.
C4_RmdOnly ==
    /\ (wpc = "returned" /\ call.age >= 73 /\ call.amount_needed = Zero) =>
          /\ Withdrawn(TRADITIONAL_401K) =
                 RMin(SpecRmd, get_balance(accounts, TRADITIONAL_401K))
          /\ Withdrawn(TRADITIONAL_IRA) =
                 RSub(SpecRmd, Withdrawn(TRADITIONAL_401K))
          /\ DOMAIN ret.withdrawals \subseteq {TRADITIONAL_401K, TRADITIONAL_IRA}
    /\ wpc = "returned" =>
          /\ calculate_withdrawal(
                 add_account(EmptyDict, TRADITIONAL_401K, R(500000), R(500000)),
                 Zero, 73, call.ordinary_income, call.filing_jointly,
                 NoRounding).withdrawals
             = [t \in {TRADITIONAL_401K} |-> RDiv(R(500000), <<265, 10>>)]
          /\ calculate_withdrawal(
                 add_account(
                     add_account(EmptyDict, TRADITIONAL_401K, R(53), R(53)),
                     TRADITIONAL_IRA, R(1696), R(1696)),
                 Zero, 73, call.ordinary_income, call.filing_jointly,
                 NoRounding).withdrawals
             = [t \in {TRADITIONAL_401K, TRADITIONAL_IRA} |->
                    IF t = TRADITIONAL_401K THEN R(53) ELSE R(13)]

\* C4 witness: beyond the end of the table, with both Traditional accounts
\* funded and nothing needed, the RMD is drawn and nothing else.
C4_Witness ==
    /\ wpc = "returned"
    /\ call.age > 100
    /\ call.amount_needed = Zero
    /\ RLt(Zero, get_balance(accounts, TRADITIONAL_401K))
    /\ RLt(Zero, get_balance(accounts, TRADITIONAL_IRA))
    /\ ROTH_IRA \in DOMAIN accounts
    /\ Withdrawn(TRADITIONAL_401K) = SpecRmd
    /\ RLt(Zero, SpecRmd)

\* position of account type t in withdrawal_order
OrderIndex(t) == CHOOSE i \in 1..Len(withdrawal_order) : withdrawal_order[i] = t

\* C5: below age 73, a positive withdrawal from X implies every account
\* earlier in the order with a positive balance is withdrawn in full.
C5_WithdrawalOrdering ==
    (wpc = "returned" /\ call.age < 73) =>
        \A x \in AccountType, y \in AccountType :
            (/\ RLt(Zero, Withdrawn(x))
             /\ OrderIndex(y) < OrderIndex(x)
             /\ RLt(Zero, get_balance(accounts, y)))
                => Withdrawn(y) = get_balance(accounts, y)

\* C6: when amount_needed >= total balance every account with a positive
\* balance is withdrawn in full.
C6_InsufficientPortfolio ==
    (wpc = "returned" /\ RLe(get_total_balance(accounts), call.amount_needed)) =>
        \A t \in DOMAIN accounts :
            RLt(Zero, accounts[t].balance) => Withdrawn(t) = accounts[t].balance

(***************************************************************************)
(* SpecPortfolio: an AccountPortfolio under any sequence of its mutators.  *)
(***************************************************************************)
MaxOps == 3

PortfolioTypes == {TAXABLE, ROTH_IRA}

InitPortfolio ==
    /\ accounts = EmptyDict
    /\ ops = 0
    /\ WithdrawalIdle
    /\ ForecastIdle
    /\ TaxIdle

\* portfolio.add_account(account_type, balance, cost_basis); cost_basis None
\* is the empty tuple
AddAccount ==
    /\ ops < MaxOps
    /\ \E account_type \in PortfolioTypes, balance \in {R(-50), R(100)},
          cost_basis \in {<< >>, R(80), R(150)} :
          accounts' = add_account(accounts, account_type, balance,
                          IF cost_basis = << >> THEN balance ELSE cost_basis)
    /\ ops' = ops + 1
    /\ UNCHANGED <<wvars, fvars, tvars>>

Deposit ==
    /\ ops < MaxOps
    /\ \E account_type \in PortfolioTypes, amount \in {R(-10), R(0), R(40)} :
          accounts' = deposit(accounts, account_type, amount)
    /\ ops' = ops + 1
    /\ UNCHANGED <<wvars, fvars, tvars>>

UpdateBalance ==
    /\ ops < MaxOps
    /\ \E account_type \in PortfolioTypes, new_balance \in {R(-20), R(50), R(200)} :
          accounts' = update_balance(accounts, account_type, new_balance)
    /\ ops' = ops + 1
    /\ UNCHANGED <<wvars, fvars, tvars>>

UpdateCostBasis ==
    /\ ops < MaxOps
    /\ \E account_type \in PortfolioTypes, new_basis \in {R(-5), R(60), R(300)} :
          accounts' = update_cost_basis(accounts, account_type, new_basis)
    /\ ops' = ops + 1
    /\ UNCHANGED <<wvars, fvars, tvars>>

ApplyGrowth ==
    /\ ops < MaxOps
    /\ \E growth_rate \in {<<1, 10>>, <<-1, 2>>} :
          accounts' = apply_growth(accounts, growth_rate)
    /\ ops' = ops + 1
    /\ UNCHANGED <<wvars, fvars, tvars>>

NextPortfolio ==
    \/ AddAccount
    \/ Deposit
    \/ UpdateBalance
    \/ UpdateCostBasis
    \/ ApplyGrowth

SpecPortfolio == InitPortfolio /\ [][NextPortfolio]_vars

\* C1: after any sequence of add_account, deposit, update_balance,
\* update_cost_basis and apply_growth every present account has balance >= 0
\* and 0 <= cost_basis <= balance.
C1_PortfolioNonNegativity ==
    \A t \in DOMAIN accounts :
        /\ RLe(Zero, accounts[t].balance)
        /\ RLe(Zero, accounts[t].cost_basis)
        /\ RLe(accounts[t].cost_basis, accounts[t].balance)

(***************************************************************************)
(* Spec: a RetirementCalculator from construction through forecasts,      *)
(* summary metrics and the Monte Carlo simulation.                         *)
(***************************************************************************)
MaxYears == 3

MaxCalls == 2

MaxIterations == 2

Person(name, age, retirement_age, current_income, retirement_income, annual_rsu_vesting) ==
    [name |-> name, age |-> age, retirement_age |-> retirement_age,
     current_income |-> current_income, income_growth_rate |-> Zero,
     retirement_income |-> retirement_income,
     annual_rsu_vesting |-> annual_rsu_vesting]

Worker == <<Person("worker", 30, 32, R(80000), Zero, R(10000))>>

Retiree == <<Person("retiree", 72, 65, Zero, Zero, Zero)>>

Couple ==
    <<Person("spouse", 64, 65, R(60000), Zero, Zero),
      Person("elder", 66, 60, Zero, Zero, Zero)>>

\* account_balances dicts, as sequences of (key, value) in insertion order
NoBalances == << >>

ThreeAccounts ==
    << <<TRADITIONAL_401K, R(3392)>>, <<ROTH_IRA, R(5000)>>,
       <<TAXABLE, R(10000)>> >>

RothAndTaxable == << <<ROTH_IRA, R(5000)>>, <<TAXABLE, R(10000)>> >>

UnknownAccount == << <<ROTH_IRA, R(5000)>>, <<"brokerage", R(10000)>> >>

\* contribution_allocation dicts
NoAllocation == << >>

SplitAllocation == << <<ROTH_IRA, <<1, 2>>>>, <<TRADITIONAL_401K, <<1, 2>>>> >>

\* percentages that sum to 0.5
HalfAllocation == << <<TAXABLE, <<1, 2>>>> >>

\* two names that are no AccountType, one with a positive percentage
FallbackAllocation ==
    << <<"brokerage", <<1, 2>>>>, <<ROTH_IRA, <<1, 2>>>>, <<"crypto", Zero>> >>

\* one_time_expenses lists
NoOneTime == << >>

NextYearOneTime == <<[year |-> datetime_now_year + 1, amount |-> R(5000)]>>

\* RetirementCalculator.__init__: the attributes other than self.portfolio
RetirementCalculator(people, initial_assets, annual_expenses, expense_growth_rate, investment_return_rate, state, additional_contributions, social_security_age, social_security_benefit, inflation_rate, account_balances, contribution_allocation, one_time_expenses) ==
    [people |-> people,
     initial_assets |-> initial_assets,
     annual_expenses |-> annual_expenses,
     expense_growth_rate |-> expense_growth_rate,
     investment_return_rate |-> investment_return_rate,
     state |-> state,
     additional_contributions |-> additional_contributions,
     social_security_age |-> social_security_age,
     social_security_benefit |-> social_security_benefit,
     inflation_rate |-> inflation_rate,
     filing_jointly |-> Len(people) > 1,
     contribution_allocation |->
         IF Len(contribution_allocation) > 0 THEN contribution_allocation
         ELSE << <<TAXABLE, One>> >>,
     account_balances |-> account_balances,
     one_time_expenses |-> one_time_expenses]

\* a calculator with initial_assets 50000, expense growth 10%, state New
\* York, additional contributions 5000, Social Security from 67, inflation 25%
Configure(people, annual_expenses, investment_return_rate, social_security_benefit, account_balances, contribution_allocation, one_time_expenses) ==
    RetirementCalculator(people, R(50000), annual_expenses, <<1, 10>>,
        investment_return_rate, "New York", R(5000), 67,
        social_security_benefit, <<1, 4>>, account_balances,
        contribution_allocation, one_time_expenses)

Configurations ==
    { Configure(Worker, R(20000), Zero, Zero, NoBalances, NoAllocation,
                NoOneTime),
      Configure(Worker, R(20000), Zero, Zero, ThreeAccounts,
                SplitAllocation, NextYearOneTime),
      Configure(Worker, R(60000), Zero, Zero, NoBalances, NoAllocation,
                NoOneTime),
      Configure(Retiree, R(60000), <<1, 10>>, R(30000), NoBalances,
                NoAllocation, NoOneTime),
      Configure(Retiree, R(20000), Zero, R(30000), ThreeAccounts,
                SplitAllocation, NoOneTime),
      Configure(Retiree, R(60000), Zero, Zero, ThreeAccounts, NoAllocation,
                NoOneTime),
      Configure(Retiree, R(20000), <<1, 10>>, Zero, NoBalances, NoAllocation,
                NoOneTime),
      Configure(Retiree, R(20000), Zero, Zero, ThreeAccounts, NoAllocation,
                NextYearOneTime),
      Configure(Couple, R(60000), Zero, R(30000), NoBalances, NoAllocation,
                NoOneTime),
      Configure(Couple, R(20000), Zero, R(30000), ThreeAccounts,
                SplitAllocation, NoOneTime),
      Configure(Couple, R(20000), Zero, Zero, NoBalances, NoAllocation,
                NextYearOneTime),
      Configure(Retiree, R(20000), Zero, Zero, UnknownAccount, NoAllocation,
                NoOneTime),
      Configure(Worker, R(20000), Zero, Zero, NoBalances, HalfAllocation,
                NoOneTime),
      Configure(Worker, R(20000), Zero, Zero, ThreeAccounts,
                FallbackAllocation, NoOneTime),
      Configure(Retiree, R(20000), Zero, R(30000), ThreeAccounts,
                NoAllocation, NoOneTime),
      Configure(Retiree, R(5000), Zero, Zero, RothAndTaxable,
                NoAllocation, NoOneTime),
      Configure(Retiree, R(20000), <<-3, 2>>, Zero, NoBalances, NoAllocation,
                NoOneTime),
      Configure(Worker, R(80000), Zero, Zero, NoBalances, NoAllocation,
                NoOneTime) }

Init ==
    /\ calc \in Configurations
    /\ IF ConstructorRaises(calc.account_balances)
       THEN accounts = EmptyDict /\ fpc = "ValueError"
       ELSE /\ accounts = InitialPortfolio(calc.account_balances,
                                           calc.initial_assets)
            /\ fpc = "ready"
    /\ ops = 0
    /\ WithdrawalIdle
    /\ TaxIdle
    /\ years = 0
    /\ year = 0
    /\ results = << >>
    /\ start = EmptyDict
    /\ returned = << >>
    /\ summary = << >>
    /\ mc = << >>

\* calculate_forecast(years) is called: lines 152-155; the caller drops the
\* metrics of the previous forecast
CalculateForecast ==
    /\ fpc \in {"ready", "returned"}
    /\ Len(returned) < MaxCalls
    /\ \E y \in 1..MaxYears : years' = y
    /\ year' = 0
    /\ results' = << >>
    /\ start' = accounts
    /\ summary' = << >>
    /\ fpc' = "loop"
    /\ UNCHANGED <<accounts, ops, wvars, tvars, calc, returned, mc>>

\* lines 264-317: the record is appended, then the break or the next year
AppendYear(step, rows) ==
    /\ accounts' = step.accounts
    /\ results' = rows
    /\ IF Depleted(step.record) \/ year + 1 >= years
       THEN /\ fpc' = "returned"
            /\ returned' = Append(returned,
                   [years |-> years, start |-> start, df |-> rows])
            /\ year' = year
       ELSE /\ fpc' = "loop"
            /\ returned' = returned
            /\ year' = year + 1

\* the record list after appending the record of step
Appended(step) == AppendYear(step, Append(results, step.record))

\* one iteration of "for year in range(years)", then the break or the return
ForecastStep ==
    /\ fpc = "loop"
    /\ \E errs \in RoundingErrors :
          Appended(ForecastYear(calc, accounts, year, errs))
    /\ UNCHANGED <<ops, wvars, tvars, calc, years, start, summary, mc>>

\* calculate_summary_metrics(forecast_df) on the forecast returned last
CalculateSummaryMetrics ==
    /\ fpc = "returned"
    /\ summary' = <<[of |-> Len(returned),
                     metrics |-> calculate_summary_metrics(
                                     returned[Len(returned)].df)]>>
    /\ UNCHANGED <<accounts, ops, wvars, tvars, calc, fpc, years, year, results,
                   start, returned, mc>>

\* AccountPortfolio.__init__(self) called with nargs positional arguments
AccountPortfolioNew(nargs) ==
    IF nargs = 0 THEN [raised |-> "", accounts |-> EmptyDict]
    ELSE [raised |-> "TypeError", accounts |-> EmptyDict]

\* run_monte_carlo_simulation: the first trial constructs its portfolio with
\* two arguments (line 411); "trials" is len(simulations) when control leaves
\* and "percentiles" the rows of percentiles_df (lines 510-517), which is not
\* built when the exception leaves the function
run_monte_carlo_simulation(c, years_, iterations) ==
    LET portfolio == AccountPortfolioNew(2)
    IN [raised |-> portfolio.raised, years |-> years_,
        iterations |-> iterations, trials |-> 0, percentiles |-> << >>]

\* run_monte_carlo_simulation(years, iterations) is called; an exception
\* leaves the caller with it
RunMonteCarlo ==
    /\ fpc \in {"ready", "returned"}
    /\ \E y \in 1..MaxYears, iterations \in 1..MaxIterations :
          LET out == run_monte_carlo_simulation(calc, y, iterations)
          IN /\ mc' = <<out>>
             /\ fpc' = IF out.raised # "" THEN out.raised ELSE fpc
    /\ UNCHANGED <<accounts, ops, wvars, tvars, calc, years, year, results,
                   start, returned, summary>>

Next ==
    \/ CalculateForecast
    \/ ForecastStep
    \/ CalculateSummaryMetrics
    \/ RunMonteCarlo

Spec == Init /\ [][Next]_vars

(***************************************************************************)
(* Properties of the forecast engine and the Monte Carlo runner.           *)
(***************************************************************************)
\* 'Assets (Nominal)' of the last record of a returned forecast
LastAssets(df) == df[Len(df)]["Assets (Nominal)"]

\* the records of every returned forecast: between 1 and `years` of them,
\* on consecutive calendar years; and the reported assets_depleted is the
\* last record's assets being <= 0
ForecastShape ==
    /\ \A k \in 1..Len(returned) :
          LET df == returned[k].df
          IN /\ 1 <= Len(df)
             /\ Len(df) <= returned[k].years
             /\ \A i \in 1..(Len(df) - 1) : df[i + 1]["Year"] = df[i]["Year"] + 1
    /\ fpc = "loop" => (year < years /\ Len(results) = year)
    /\ summary # << >> =>
          (summary[1].metrics.assets_depleted
              <=> RLe(LastAssets(returned[summary[1].of].df), Zero))

\* the body of the year loop yields the record of the current year
LoopBodyCompletes ==
    fpc = "loop" =>
        \E errs \in RoundingErrors :
            ForecastYear(calc, accounts, year, errs).record["Year"]
                = datetime_now_year + year

\* a step of the year loop returns or moves on to the next year of the same
\* horizon
LoopAdvances ==
    fpc = "loop" =>
        \/ fpc' = "returned"
        \/ fpc' = "loop" /\ year' = year + 1 /\ years' = years

\* C7: every calculate_forecast call terminates (the loop body completes, and
\* each step returns or advances year, which stays below years) and returns
\* between 1 and `years` records on strictly increasing, consecutive years,
\* and calculate_summary_metrics reports assets_depleted exactly when the
\* last record's 'Assets (Nominal)' is <= 0.
C7_ForecastTermination ==
    /\ [](ForecastShape /\ LoopBodyCompletes)
    /\ [][LoopAdvances]_vars

\* C7 witness: the metrics of a forecast that stopped before its horizon, after
\* at least two years, report depletion.
C7_Witness ==
    /\ summary # << >>
    /\ summary[1].metrics.assets_depleted
    /\ Len(returned[summary[1].of].df) >= 2
    /\ Len(returned[summary[1].of].df) < returned[summary[1].of].years

\* C8: in the running and in every returned forecast each record but the last
\* has 'Assets (Nominal)' > 0, and a forecast shorter than `years` ends on a
\* record whose assets are 0.
C8_HaltOnDepletion ==
    /\ fpc = "loop" =>
          \A i \in 1..Len(results) : RLt(Zero, results[i]["Assets (Nominal)"])
    /\ \A k \in 1..Len(returned) :
          LET df == returned[k].df
          IN /\ \A i \in 1..(Len(df) - 1) : RLt(Zero, df[i]["Assets (Nominal)"])
             /\ Len(df) < returned[k].years => LastAssets(df) = Zero

\* C8 witness: a forecast asked for three years or more that stopped after its
\* second year with assets 0.
C8_Witness ==
    \E k \in 1..Len(returned) :
        /\ returned[k].years >= 3
        /\ Len(returned[k].df) = 2
        /\ LastAssets(returned[k].df) = Zero
        /\ RLt(Zero, returned[k].df[1]["Assets (Nominal)"])

\* C9: every calculate_forecast call starts from the configured initial
\* balances, and two calls with the same horizon on one calculator return
\* identical record sequences.
C9_ForecastRepeatability ==
    /\ \A k \in 1..Len(returned) :
          returned[k].start =
              InitialPortfolio(calc.account_balances, calc.initial_assets)
    /\ \A j \in 1..Len(returned), k \in 1..Len(returned) :
          returned[j].years = returned[k].years
              => returned[j].df = returned[k].df

\* C10: run_monte_carlo_simulation with years >= 1 and iterations >= 1 does
\* not raise and has run one trial per iteration when it returns.
C10_MonteCarloCompletes ==
    mc # << >> =>
        /\ mc[1].raised = ""
        /\ mc[1].trials = mc[1].iterations

\* C11: a run_monte_carlo_simulation call yields a percentile table with one
\* row per simulated year, and in every row p10 <= p25 <= p50 <= p75 <= p90.
C11_MonteCarloBounds ==
    mc # << >> =>
        /\ Len(mc[1].percentiles) >= 1
        /\ Len(mc[1].percentiles) <= mc[1].years
        /\ \A i \in 1..Len(mc[1].percentiles) :
              LET row == mc[1].percentiles[i]
              IN /\ RLe(row["p10"], row["p25"])
                 /\ RLe(row["p25"], row["p50"])
                 /\ RLe(row["p50"], row["p75"])
                 /\ RLe(row["p75"], row["p90"])

\* sum of the percentages of a contribution_allocation dict from entry i on
RECURSIVE AllocationTotal(_, _)
AllocationTotal(contribution_allocation, i) ==
    IF i > Len(contribution_allocation) THEN Zero
    ELSE RAdd(contribution_allocation[i][2],
              AllocationTotal(contribution_allocation, i + 1))

\* C12: a calculator whose contribution_allocation percentages do not sum to
\* 1.0 is rejected at construction, so it never runs a forecast.
C12_AllocationValidation ==
    AllocationTotal(calc.contribution_allocation, 1) # One
        => (fpc = "ValueError" /\ results = << >> /\ returned = << >>)

\* the keys of an account_balances dict that are none of the six AccountType
\* values
UnknownKeys(account_balances) ==
    {i \in 1..Len(account_balances) :
        account_balances[i][1] \notin
            {"traditional_401k", "traditional_ira", "roth_401k", "roth_ira",
             "taxable", "hsa"}}

\* C13: a calculator given explicit account_balances with a key that is no
\* AccountType fails at construction: it has no portfolio, runs no forecast,
\* and nothing of the unknown key is put into Taxable.
C13_AccountTypeValidation ==
    UnknownKeys(calc.account_balances) # {} =>
        /\ fpc = "ValueError"
        /\ accounts = EmptyDict
        /\ results = << >>
        /\ returned = << >>
        /\ summary = << >>
        /\ mc = << >>

\* C13 witness: the construction failed on a dict whose first key is a valid
\* account type and whose second key is not.
C13_Witness ==
    /\ fpc = "ValueError"
    /\ 2 \in UnknownKeys(calc.account_balances)
    /\ 1 \notin UnknownKeys(calc.account_balances)

\* the share of a surplus that goes to Taxable: the positive percentages under
\* the name taxable or under a name that is no AccountType
RECURSIVE TaxableShare(_, _)
TaxableShare(contribution_allocation, i) ==
    IF i > Len(contribution_allocation) THEN Zero
    ELSE RAdd(IF /\ RLt(Zero, contribution_allocation[i][2])
                 /\ \/ contribution_allocation[i][1] = TAXABLE
                    \/ contribution_allocation[i][1] \notin AccountType
              THEN contribution_allocation[i][2] ELSE Zero,
              TaxableShare(contribution_allocation, i + 1))

\* the positive percentages under names that are no AccountType
UnknownAllocations ==
    {i \in 1..Len(calc.contribution_allocation) :
        /\ calc.contribution_allocation[i][1] \notin AccountType
        /\ RLt(Zero, calc.contribution_allocation[i][2])}

\* balance of column col at the start of year i of the running forecast,
\* after that year's growth
GrownBefore(i, col, account_type) ==
    RMul(IF i = 1 THEN get_balance(start, account_type)
                  ELSE results[i - 1][col],
         RAdd(One, calc.investment_return_rate))

\* C14: in every forecast year with a positive cash flow the Taxable account
\* grows by cashFlow * percentage for each entry under an unrecognized name
\* (besides the share allocated to taxable itself), and no error is raised.
C14_AllocationFallback ==
    /\ (UnknownAllocations # {} /\ UnknownKeys(calc.account_balances) = {})
           => fpc # "ValueError"
    /\ \A i \in 1..Len(results) :
          RLt(Zero, results[i]["Cash Flow"]) =>
              results[i]["Taxable"] =
                  RAdd(GrownBefore(i, "Taxable", TAXABLE),
                       RMul(results[i]["Cash Flow"],
                            TaxableShare(calc.contribution_allocation, 1)))

\* C14 witness: the second year of a forecast deposited the share of an
\* unrecognized name into Taxable.
C14_Witness ==
    /\ UnknownAllocations # {}
    /\ Len(results) >= 2
    /\ RLt(Zero, results[2]["Cash Flow"])
    /\ RLt(results[1]["Taxable"], results[2]["Taxable"])

\* Traditional-401k + Traditional-IRA balance at the start of year i of the
\* running forecast, after that year's growth
TraditionalBefore(i) ==
    RAdd(GrownBefore(i, "Traditional_401k", TRADITIONAL_401K),
         GrownBefore(i, "Traditional_IRA", TRADITIONAL_IRA))

\* C20: in every forecast year in which the oldest person is 73 or older and
\* the Traditional balance is positive, the Traditional accounts end the year
\* lower by at least the RMD of that year, whatever the cash flow.
C20_ForecastRmd ==
    \A i \in 1..Len(results) :
        (results[i]["Age"] >= 73 /\ RLt(Zero, TraditionalBefore(i))) =>
            RLe(RAdd(results[i]["Traditional_401k"],
                     results[i]["Traditional_IRA"]),
                RSub(TraditionalBefore(i),
                     RDiv(TraditionalBefore(i),
                          SpecDivisor(results[i]["Age"]))))

(***************************************************************************)
(* SpecTax: calls of the TaxCalculator methods on incomes at, next to and  *)
(* between the bracket limits.                                             *)
(***************************************************************************)
\* gross incomes: 0, both standard deductions, every bracket limit plus the
\* deduction of its filing status, each of these plus 1, and 1000000
BoundaryIncomes ==
    {0, 14600, 29200,
     26200, 61750, 115125, 206550, 258325, 623950,
     52400, 123500, 230250, 413100, 516650, 760400}

FederalIncomes ==
    {R(n) : n \in BoundaryIncomes} \cup {R(n + 1) : n \in BoundaryIncomes}
        \cup {R(1000000)}

\* calculate_federal_income_tax is called for two incomes under one filing
\* status
FederalCalls ==
    [fn : {"calculate_federal_income_tax"}, income1 : FederalIncomes,
     income2 : FederalIncomes, filing_jointly : BOOLEAN]

\* capital gains: none, a loss, and amounts that stay inside one bracket, fill
\* the 0% bracket exactly, or span two or three brackets
GainsChoices ==
    {R(0), R(-1000), R(1000), R(47025), R(50000), R(94050), R(100000),
     R(600000)}

\* ordinary incomes: below and at the deductions, and around the incomes that
\* put the taxable income on a capital-gains bracket limit
OrdinaryIncomeChoices ==
    {R(0), R(14600), R(29200), R(40000), R(61625), R(61626), R(100000),
     R(123250), R(533500), R(600000), R(612950), R(700000)}

CapitalGainsCalls ==
    [fn : {"calculate_capital_gains_tax"}, gains : GainsChoices,
     ordinary_income : OrdinaryIncomeChoices, filing_jointly : BOOLEAN]

\* states with a positive rate, with rate 0, and absent from STATE_TAX_RATES
StateChoices == {"New York", "California", "Texas", "Atlantis"}

TotalCalls ==
    [fn : {"calculate_total_tax"},
     ordinary_income : {R(0), R(40000), R(100000), R(250000)},
     capital_gains : {R(0), R(1000), R(100000)},
     state : StateChoices, filing_jointly : BOOLEAN, age : {30, 70},
     is_working : BOOLEAN]

InitTax ==
    /\ tax_call \in FederalCalls \cup CapitalGainsCalls \cup TotalCalls
    /\ tax_ret = << >>
    /\ tpc = "call"
    /\ accounts = EmptyDict
    /\ ops = 0
    /\ WithdrawalIdle
    /\ ForecastIdle

CalculateFederalIncomeTax ==
    /\ tpc = "call"
    /\ tax_call.fn = "calculate_federal_income_tax"
    /\ tax_ret' = <<calculate_federal_income_tax(tax_call.income1,
                                                 tax_call.filing_jointly),
                    calculate_federal_income_tax(tax_call.income2,
                                                 tax_call.filing_jointly)>>
    /\ tpc' = "returned"
    /\ UNCHANGED <<accounts, ops, wvars, fvars, tax_call>>

CalculateCapitalGainsTax ==
    /\ tpc = "call"
    /\ tax_call.fn = "calculate_capital_gains_tax"
    /\ tax_ret' = calculate_capital_gains_tax(tax_call.gains,
                       tax_call.ordinary_income, tax_call.filing_jointly)
    /\ tpc' = "returned"
    /\ UNCHANGED <<accounts, ops, wvars, fvars, tax_call>>

\* calculate_total_tax returns the pair (total_tax, breakdown)
CalculateTotalTax ==
    /\ tpc = "call"
    /\ tax_call.fn = "calculate_total_tax"
    /\ LET breakdown ==
               calculate_total_tax(tax_call.ordinary_income,
                   tax_call.capital_gains, tax_call.state,
                   tax_call.filing_jointly, tax_call.age, tax_call.is_working)
       IN tax_ret' = <<breakdown.total, breakdown>>
    /\ tpc' = "returned"
    /\ UNCHANGED <<accounts, ops, wvars, fvars, tax_call>>

NextTax ==
    \/ CalculateFederalIncomeTax
    \/ CalculateCapitalGainsTax
    \/ CalculateTotalTax

SpecTax == InitTax /\ [][NextTax]_vars

(***************************************************************************)
(* Properties of the tax engine (SpecTax).                                 *)
(***************************************************************************)
FederalReturned ==
    tpc = "returned" /\ tax_call.fn = "calculate_federal_income_tax"

\* the standard deduction as the specification states it
SpecDeduction(filing_jointly) == IF filing_jointly THEN R(29200) ELSE R(14600)

\* C15: for either filing status and incomes income2 > income1 >= 0 the
\* federal tax of income2 is at least that of income1, and the tax of an
\* income at or below the standard deduction is 0.
C15_TaxMonotonicity ==
    FederalReturned =>
        /\ RLt(tax_call.income1, tax_call.income2)
               => RLe(tax_ret[1], tax_ret[2])
        /\ RLe(tax_call.income1, SpecDeduction(tax_call.filing_jointly))
               => tax_ret[1] = Zero

\* C15 witness: two incomes above the deduction, the larger several brackets
\* up, and a positive tax on the smaller.
C15_Witness ==
    /\ FederalReturned
    /\ tax_call.filing_jointly
    /\ tax_call.income1 = R(52401)
    /\ tax_call.income2 = R(413100)
    /\ RLt(Zero, tax_ret[1])
    /\ RLt(tax_ret[1], tax_ret[2])

\* the bracket whose limit is the taxable income t, 0 when t is no limit
BracketAt(brackets, t) ==
    IF \E k \in 1..Len(brackets) : brackets[k][1] = t
    THEN CHOOSE k \in 1..Len(brackets) : brackets[k][1] = t
    ELSE 0

\* C16: for either filing status, raising the income by 1 raises the federal
\* tax by at most the top marginal rate 0.37 and never lowers it; from a
\* taxable income equal to a bracket limit the rise is exactly the next
\* bracket's rate, so the tax has no jump at the limit.
C16_BracketContinuity ==
    (FederalReturned /\ tax_call.income2 = RAdd(tax_call.income1, One)) =>
        LET brackets == IF tax_call.filing_jointly THEN FEDERAL_BRACKETS_JOINT
                                                   ELSE FEDERAL_BRACKETS_SINGLE
            rise == RSub(tax_ret[2], tax_ret[1])
            k == BracketAt(brackets,
                     RSub(tax_call.income1,
                          SpecDeduction(tax_call.filing_jointly)))
        IN /\ RLe(Zero, rise)
           /\ RLe(rise, <<37, 100>>)
           /\ k # 0 => rise = Rate(brackets[k + 1][2])

\* C16 witness: the tax across the limit of the 35% bracket, single filer.
C16_Witness ==
    /\ FederalReturned
    /\ ~tax_call.filing_jointly
    /\ tax_call.income1 = R(623950)
    /\ tax_call.income2 = R(623951)
    /\ RSub(tax_ret[2], tax_ret[1]) = <<37, 100>>

CapitalGainsReturned ==
    tpc = "returned" /\ tax_call.fn = "calculate_capital_gains_tax"

\* length of the part of the interval [lo, hi] that lies in [a, b]
Overlap(lo, hi, a, b) == RMax(Zero, RSub(RMin(hi, b), RMax(lo, a)))

\* the reference stacked tax: the gains occupy [T, T + gains] above the
\* taxable ordinary income T; 0% below the first limit, 15% between the
\* limits, 20% above the second
StackedTax(gains, ordinary_income, filing_jointly) ==
    LET T  == RMax(Zero, RSub(ordinary_income, SpecDeduction(filing_jointly)))
        L1 == IF filing_jointly THEN R(94050) ELSE R(47025)
        L2 == IF filing_jointly THEN R(583750) ELSE R(518900)
        top == RAdd(T, gains)
    IN RAdd(RMul(<<15, 100>>, Overlap(T, top, L1, L2)),
            RMul(<<20, 100>>, RMax(Zero, RSub(top, RMax(T, L2)))))

\* C17: for gains > 0, any ordinary income and either filing status the
\* capital-gains tax equals the stacked reference tax.
C17_CapitalGainsStacking ==
    (CapitalGainsReturned /\ RLt(Zero, tax_call.gains)) =>
        tax_ret = StackedTax(tax_call.gains, tax_call.ordinary_income,
                             tax_call.filing_jointly)

\* C17 witness: gains that start in the 0% bracket above a positive taxable
\* income and reach into the 20% bracket.
C17_Witness ==
    /\ CapitalGainsReturned
    /\ ~tax_call.filing_jointly
    /\ tax_call.ordinary_income = R(40000)
    /\ tax_call.gains = R(600000)
    /\ tax_ret = RAdd(RMul(<<15, 100>>, R(518900 - 47025)),
                      RMul(<<20, 100>>, R(25400 + 600000 - 518900)))

\* the 0%-bracket ceiling as the specification states it
SpecCeiling(filing_jointly) == IF filing_jointly THEN R(94050) ELSE R(47025)

\* C18: the capital-gains tax is 0 for gains <= 0, and 0 for gains > 0
\* whenever ordinary income + gains does not exceed the 0%-bracket ceiling of
\* the filing status (47025 single, 94050 joint).
C18_CapitalGainsZeroFloor ==
    CapitalGainsReturned =>
        /\ RLe(tax_call.gains, Zero) => tax_ret = Zero
        /\ RLe(RAdd(tax_call.ordinary_income, tax_call.gains),
               SpecCeiling(tax_call.filing_jointly)) => tax_ret = Zero

\* C18 witness: positive gains that reach the single ceiling exactly.
C18_Witness ==
    /\ CapitalGainsReturned
    /\ ~tax_call.filing_jointly
    /\ tax_call.gains = R(47025)
    /\ tax_call.ordinary_income = Zero
    /\ tax_ret = Zero

TotalReturned == tpc = "returned" /\ tax_call.fn = "calculate_total_tax"

\* the flat state rates of the states called with; 0 for a state the table
\* does not hold
SpecStateRate(state) ==
    CASE state = "New York" -> <<137, 2000>>
      [] state = "California" -> <<93, 1000>>
      [] OTHER -> Zero

\* C19: the total is federal(ordinary) + capitalGainsTax(gains, ordinary) +
\* stateRate * (ordinary + gains) + FICA, with FICA 0 when is_working is
\* false and state rate 0 for a state outside the table; the breakdown's
\* total is the sum of its four components and is the returned total.
C19_TotalTaxComposition ==
    TotalReturned =>
        LET total == tax_ret[1]
            breakdown == tax_ret[2]
            federal == calculate_federal_income_tax(tax_call.ordinary_income,
                           tax_call.filing_jointly)
            gains_tax == calculate_capital_gains_tax(tax_call.capital_gains,
                             tax_call.ordinary_income, tax_call.filing_jointly)
            state_tax == RMul(SpecStateRate(tax_call.state),
                              RAdd(tax_call.ordinary_income,
                                   tax_call.capital_gains))
            fica == IF tax_call.is_working
                    THEN calculate_fica_tax(tax_call.ordinary_income,
                                            tax_call.age)
                    ELSE Zero
        IN /\ total = RAdd(RAdd(RAdd(federal, gains_tax), state_tax), fica)
           /\ ~tax_call.is_working => breakdown.fica = Zero
           /\ tax_call.state \notin DOMAIN STATE_TAX_RATES
                  => breakdown.state = Zero
           /\ breakdown.total =
                  RAdd(RAdd(RAdd(breakdown.federal_income,
                                 breakdown.capital_gains),
                            breakdown.state), breakdown.fica)
           /\ breakdown.total = total

\* C19 witness: a working New York filer with income above the additional
\* Medicare threshold and taxed gains: all four components are positive.
C19_Witness ==
    /\ TotalReturned
    /\ tax_call.is_working
    /\ tax_call.state = "New York"
    /\ tax_call.ordinary_income = R(250000)
    /\ tax_call.capital_gains = R(100000)
    /\ RLt(Zero, tax_ret[2].federal_income)
    /\ tax_ret[2].capital_gains = R(15000)
    /\ tax_ret[2].state = RMul(<<137, 2000>>, R(350000))
    /\ RLt(Zero, tax_ret[2].fica)

(***************************************************************************)
(* Further properties of the forecast engine (Spec).                       *)
(***************************************************************************)
\* the record lists to look at: the running forecast and every returned one
RecordLists ==
    {results} \cup {returned[k].df : k \in 1..Len(returned)}

\* C21: record N (N = 0, 1, ...) of a forecast has Working true exactly when
\* some person has age + N < retirement_age, and Working never goes from
\* false back to true along the records.
C21_WorkingFlag ==
    calc # << >> =>
        \A df \in RecordLists :
            /\ \A i \in 1..Len(df) :
                  df[i]["Working"] <=>
                      \E k \in 1..Len(calc.people) :
                          calc.people[k].age + (i - 1)
                              < calc.people[k].retirement_age
            /\ \A i \in 1..(Len(df) - 1) :
                  ~df[i]["Working"] => ~df[i + 1]["Working"]

\* C21 witness: a single person aged 30 retiring at 32 is working in the
\* records of ages 30 and 31 and not in the record of age 32.
C21_Witness ==
    /\ Len(results) = 3
    /\ Len(calc.people) = 1
    /\ calc.people[1].age + 2 = calc.people[1].retirement_age
    /\ results[1]["Working"]
    /\ results[2]["Working"]
    /\ ~results[3]["Working"]

DispatchStep ==
    LET record == results'[Len(results')]
        cash_flow == record["Cash Flow"]
        grown == apply_growth(accounts, calc.investment_return_rate)
    IN /\ cash_flow =
              RSub(RAdd(RSub(record["Total Income"],
                             RSub(record["Total Tax"], record["Withdrawal Tax"])),
                        calc.additional_contributions),
                   record["Expenses"])
       /\ RLt(Zero, cash_flow) =>
              /\ record["Withdrawal"] = Zero
              /\ record["Withdrawal Tax"] = Zero
              /\ \A t \in DOMAIN grown :
                    RLe(grown[t].balance, get_balance(accounts', t))
       /\ RLt(cash_flow, Zero) =>
              \E errs \in RoundingErrors :
                  LET w == calculate_withdrawal(grown, RNeg(cash_flow),
                               record["Age"], record["Total Income"],
                               calc.filing_jointly, errs)
                  IN /\ DOMAIN accounts' = DOMAIN grown
                     /\ \A t \in DOMAIN grown :
                           accounts'[t].balance =
                               RSub(grown[t].balance,
                                    IF t \in DOMAIN w.withdrawals
                                    THEN w.withdrawals[t] ELSE Zero)
                     /\ record["Withdrawal"] =
                           RSum(w.withdrawals, DOMAIN w.withdrawals)
                     /\ record["Withdrawal Tax"] = w.total_withdrawal_tax
       /\ cash_flow = Zero => accounts' = grown

DepositEffect(account_type, amount) ==
    IF RLe(amount, Zero) THEN accounts' = accounts
    ELSE /\ DOMAIN accounts' = DOMAIN accounts \cup {account_type}
         /\ accounts'[account_type].balance =
                RAdd(IF account_type \in DOMAIN accounts
                     THEN accounts[account_type].balance ELSE Zero, amount)
         /\ accounts'[account_type].cost_basis =
                RAdd(IF account_type \in DOMAIN accounts
                     THEN accounts[account_type].cost_basis ELSE Zero, amount)
         /\ \A other \in DOMAIN accounts \ {account_type} :
                accounts'[other] = accounts[other]

\* C24: deposit(type, amount) with amount <= 0 changes nothing and creates no
\* account; with amount > 0 it creates the account at 0 / 0 if absent, adds
\* amount to that account's balance and cost basis, and leaves every other
\* account as it was.
C24_DepositEffect ==
    [][\A account_type \in PortfolioTypes, amount \in {R(-10), R(0), R(40)} :
          accounts' = deposit(accounts, account_type, amount)
              => DepositEffect(account_type, amount)]_vars

\* C24 witness: a deposit of 40 into an existing Taxable account of 100 / 80
\* next to a Roth IRA.
C24_Witness ==
    /\ ops = 3
    /\ DOMAIN accounts = {TAXABLE, ROTH_IRA}
    /\ accounts[TAXABLE] = [balance |-> R(140), cost_basis |-> R(120)]
    /\ accounts[ROTH_IRA] = [balance |-> R(100), cost_basis |-> R(100)]

(***************************************************************************)
(* Further properties of calculate_withdrawal (SpecWithdrawal).            *)
(***************************************************************************)
\* realized gains of the returned Taxable withdrawal: the withdrawal times the
\* share of the Taxable balance that is gain
RealizedGains ==
    LET balance == get_balance(accounts, TAXABLE)
        cost_basis == get_cost_basis(accounts, TAXABLE)
    IN IF RLt(Zero, balance) /\ RLt(cost_basis, balance)
       THEN RMul(Withdrawn(TAXABLE), RDiv(RSub(balance, cost_basis), balance))
       ELSE Zero

\* the tax the returned withdrawals call for: capital-gains tax on the
\* realized gains plus the block of federal tax the Traditional amounts add
TaxOfReturned ==
    RAdd(calculate_capital_gains_tax(RealizedGains, call.ordinary_income,
                                     call.filing_jointly),
         RSub(calculate_federal_income_tax(
                  RAdd(call.ordinary_income, TraditionalWithdrawn),
                  call.filing_jointly),
              calculate_federal_income_tax(call.ordinary_income,
                                           call.filing_jointly)))

\* C25: the returned total tax is capitalGainsTax(realized Taxable gains,
\* income) + federalTax(income + W) - federalTax(income) with W the returned
\* Traditional-401k + Traditional-IRA amounts, at every age.
C25_WithdrawalTax ==
    wpc = "returned" => ret.total_withdrawal_tax = TaxOfReturned

\* state of the main loop of calculate_withdrawal on entry to index i of
\* withdrawal_order (the state at the break once the loop has ended)
RECURSIVE LoopEntry(_, _)
LoopEntry(i, errs) ==
    IF i = 1 THEN AfterRmd(accounts, call.amount_needed, call.age)
    ELSE LET st == LoopEntry(i - 1, errs)
             account_type == withdrawal_order[i - 1]
         IN IF RLe(st.remaining_needed, Zero) THEN st
            ELSE IF RLe(get_balance(accounts, account_type), Zero) THEN st
            ELSE WithdrawFrom(accounts, account_type, st, call.ordinary_income,
                              call.filing_jointly, errs)

\* the loop body runs for index i: the need is not yet met and the account
\* holds something
Reached(i, errs) ==
    /\ RLt(Zero, LoopEntry(i, errs).remaining_needed)
    /\ RLt(Zero, get_balance(accounts, withdrawal_order[i]))

\* (federalTax(base + 10000) - federalTax(base)) / 10000
EstimatedMarginalRate(base, filing_jointly) ==
    RDiv(RSub(calculate_federal_income_tax(RAdd(base, R(10000)), filing_jointly),
              calculate_federal_income_tax(base, filing_jointly)),
         R(10000))

\* the rate estimated when the loop reaches index i
RateAt(i, errs) ==
    EstimatedMarginalRate(
        RAdd(call.ordinary_income, LoopEntry(i, errs).total_ordinary_withdrawals),
        call.filing_jointly)

\* the balance at index i covers remaining_needed / (1 - marginal_rate)
CoversGross(i, errs) ==
    RLe(RDiv(LoopEntry(i, errs).remaining_needed, RSub(One, RateAt(i, errs))),
        get_balance(accounts, withdrawal_order[i]))

TraditionalIndexes ==
    {i \in 1..Len(withdrawal_order) :
        withdrawal_order[i] \in {TRADITIONAL_401K, TRADITIONAL_IRA}}

\* the estimated marginal rate lies in [0, 0.37] whenever a Traditional
\* account is reached
RateInRange(errs) ==
    \A i \in TraditionalIndexes :
        Reached(i, errs) =>
            /\ RLe(Zero, RateAt(i, errs))
            /\ RLe(RateAt(i, errs), <<37, 100>>)

\* a Traditional draw that is not capped by the balance leaves a need of
\* exactly 0 and ends the drawing
ExactGrossUp(errs) ==
    \A i \in TraditionalIndexes :
        (Reached(i, errs) /\ CoversGross(i, errs)) =>
            /\ LoopEntry(i + 1, errs).remaining_needed = Zero
            /\ LoopEntry(Len(withdrawal_order) + 1, errs).withdrawals
                   = LoopEntry(i + 1, errs).withdrawals

\* C26: the estimated marginal rate of the Traditional gross-up lies in
\* [0, 0.37], and when the Traditional balance is at least
\* remainingNeeded / (1 - marginalRate) the need after the draw is exactly 0
\* and no later account is drawn.
C26_TraditionalGrossUp ==
    wpc = "returned" =>
        \A errs \in RoundingErrors :
            ret = calculate_withdrawal(accounts, call.amount_needed, call.age,
                      call.ordinary_income, call.filing_jointly, errs)
                => (RateInRange(errs) /\ ExactGrossUp(errs))

(***************************************************************************)
(* Further properties of the forecast's use of the withdrawals (Spec).     *)
(***************************************************************************)
\* a deficit year applies the result of calculate_withdrawal, computed on the
\* grown portfolio, to that same portfolio: the call itself changed nothing
ApplyStep ==
    LET record == results'[Len(results')]
        grown == apply_growth(accounts, calc.investment_return_rate)
    IN RLt(record["Cash Flow"], Zero) =>
           \E errs \in RoundingErrors :
               LET withdrawal_by_account ==
                       calculate_withdrawal(grown, RNeg(record["Cash Flow"]),
                           record["Age"], record["Total Income"],
                           calc.filing_jointly, errs).withdrawals
               IN /\ DOMAIN accounts' = DOMAIN accounts
                  /\ DOMAIN withdrawal_by_account \subseteq DOMAIN accounts
                  /\ \A t \in DOMAIN accounts \ DOMAIN withdrawal_by_account :
                        accounts'[t] = grown[t]
                  /\ \A t \in DOMAIN withdrawal_by_account :
                        /\ RAdd(accounts'[t].balance, withdrawal_by_account[t])
                               = grown[t].balance
                        /\ accounts'[t].cost_basis = accounts[t].cost_basis
                  /\ RAdd(get_total_balance(accounts'), record["Withdrawal"])
                         = get_total_balance(grown)

\* C27: calculate_withdrawal changes no balance, no cost basis and no account
\* set; the portfolio changes only when calculate_forecast applies the result,
\* lowering each returned account's balance by exactly the returned amount and
\* leaving the accounts not in the result untouched.
C27_WithdrawalReadOnly == [][fpc = "loop" => ApplyStep]_vars

\* C27 witness: after a year with cash flow 0 and no growth, a deficit year
\* drew on the Taxable account only and left the Roth IRA exactly as it
\* started, the Taxable cost basis unchanged.
C27_Witness ==
    /\ Len(results) = 2
    /\ calc.investment_return_rate = Zero
    /\ results[1]["Cash Flow"] = Zero
    /\ RLt(Zero, results[2]["Withdrawal"])
    /\ {TAXABLE, ROTH_IRA} \subseteq DOMAIN start
    /\ RAdd(accounts[TAXABLE].balance, results[2]["Withdrawal"])
           = start[TAXABLE].balance
    /\ accounts[TAXABLE].cost_basis = start[TAXABLE].cost_basis
    /\ RLt(Zero, start[ROTH_IRA].balance)
    /\ accounts[ROTH_IRA] = start[ROTH_IRA]

(***************************************************************************)
(* Properties of the records of a forecast (Spec).                         *)
(***************************************************************************)
\* the six per-account columns of a record
AccountColumns ==
    {"Traditional_401k", "Traditional_IRA", "Roth_401k", "Roth_IRA", "Taxable",
     "HSA"}

\* every record of the forecast in progress and of the forecasts returned
AllRecords ==
    UNION {{rows[i] : i \in 1..Len(rows)} : rows \in RecordLists}

\* the tax on the ordinary income of the year of a record
OrdinaryTax(record) ==
    calculate_total_tax(record["Total Income"], Zero, calc.state,
        calc.filing_jointly, record["Age"], record["Working"]).total

\* C28: in every record each of the six account balances is >= 0, 'Assets
\* (Nominal)' is >= 0 and is the sum of the six balances, and 'Total Tax' is
\* the tax on ordinary income plus 'Withdrawal Tax'.
C28_RecordAssets ==
    \A record \in AllRecords :
        /\ \A column \in AccountColumns : RLe(Zero, record[column])
        /\ RLe(Zero, record["Assets (Nominal)"])
        /\ record["Assets (Nominal)"] = RSum(record, AccountColumns)
        /\ record["Total Tax"] =
               RAdd(OrdinaryTax(record), record["Withdrawal Tax"])

\* the sum over the persons of their cash income in the year of a record
PersonsCashIncome(record) ==
    PeopleLoop(calc.people, 1, record["Year"] - datetime_now_year,
        [total_cash_income |-> Zero, total_rsu_vesting |-> Zero,
         anyone_working |-> FALSE, oldest_age |-> 0]).total_cash_income

\* C29: in every record 'Cash Income' is the sum over the persons of their
\* cash income of the year and is never negative, and 'Cash Income' + 'RSU
\* Vesting' + 'Social Security' is 'Total Income', before and after Social
\* Security starts.
C29_RecordIncome ==
    \A record \in AllRecords :
        /\ record["Cash Income"] = PersonsCashIncome(record)
        /\ RLe(Zero, record["Cash Income"])
        /\ RAdd(RAdd(record["Cash Income"], record["RSU Vesting"]),
                record["Social Security"]) = record["Total Income"]

(***************************************************************************)
(* The Taxable draw of a deficit year (Spec).                              *)
(***************************************************************************)
\* the share of a Taxable balance that is gain: 0 when the cost basis is at
\* or above the balance
GainsShare(balance, cost_basis) ==
    IF RLe(balance, cost_basis) THEN Zero
    ELSE RDiv(RSub(balance, cost_basis), balance)

\* what a deficit year that reaches a funded Taxable account does with it
TaxableStep ==
    LET record == results'[Len(results')]
        grown == apply_growth(accounts, calc.investment_return_rate)
        st == AfterRmd(grown, RNeg(record["Cash Flow"]), record["Age"])
        balance == get_balance(grown, TAXABLE)
        gains_ratio == GainsShare(balance, get_cost_basis(grown, TAXABLE))
        gross == RMin(RMul(<<3, 2>>, st.remaining_needed), balance)
        cg_tax == calculate_capital_gains_tax(RMul(gross, gains_ratio),
                      RAdd(record["Total Income"], st.total_ordinary_withdrawals),
                      calc.filing_jointly)
    IN (/\ RLt(record["Cash Flow"], Zero)
        /\ RLt(Zero, balance)
        /\ RLt(Zero, st.remaining_needed))
           => /\ RLe(Zero, gains_ratio)
              /\ RLe(gains_ratio, One)
              /\ RLt(Zero, RSub(gross, cg_tax))
              /\ get_balance(accounts', TAXABLE) = RSub(balance, gross)
              /\ record["Capital Gains"] = RMul(gross, gains_ratio)
              /\ RLe(Zero, record["Capital Gains"])
              /\ RLe(record["Capital Gains"], gross)

\* C30: for a Taxable account with balance > 0 and any cost basis >= 0 the
\* gains ratio used by calculate_withdrawal and by the capital-gains report
\* is in [0, 1] (0 when the cost basis is at or above the balance), the gross
\* Taxable withdrawal is min(1.5 * remainingNeeded, balance), its net of the
\* estimated capital-gains tax is > 0, and the withdrawal is recorded
\* whenever the account is reached.
C30_TaxableDraw == [][fpc = "loop" => TaxableStep]_vars

\* C30 witness: a deficit year of a high earner drew on a Taxable account
\* holding gains: capital gains were realized and taxed, and the withdrawal
\* was recorded.
C30_Witness ==
    /\ Len(results) >= 1
    /\ RLt(results[1]["Cash Flow"], Zero)
    /\ RLt(Zero, results[1]["Capital Gains"])
    /\ RLt(results[1]["Capital Gains"], results[1]["Withdrawal"])
    /\ RLt(Zero, results[1]["Withdrawal Tax"])
    /\ RAdd(results[1]["Taxable"], results[1]["Withdrawal"])
           = get_balance(start, TAXABLE)

====
